---- MODULE Spec2Model ----
(***************************************************************************)
(* A model of the ledger and reporting core of src/personalfinancetracker.py *)
(* (class PersonalFinanceTracker).  The SQLite database behind self.conn   *)
(* is the state: one variable per table, rows kept in rowid order, ids     *)
(* being the AUTOINCREMENT rowids 1, 2, ... (no statement of the program   *)
(* deletes a row).  Amounts are integers; dates and timestamps are day and *)
(* second numbers, ordered like the ISO strings the code compares.         *)
(***************************************************************************)
EXTENDS Integers, Sequences, FiniteSets, TLC

VARIABLES
    opened,        \* TRUE once a PersonalFinanceTracker has been constructed
    categories,    \* table categories: <<[name, type]>>, id = index
    transactions,  \* table transactions: <<[amount, description, category_id, date, created_at]>>
    budgets,       \* table budgets: <<[category_id, amount, period, start_date, end_date, alert_threshold]>>
    goals,         \* table goals: <<[name, target_amount, current_amount, target_date, priority, achieved]>>
    accounts,      \* table accounts in the order a scan returns it: <<[id, balance]>>
    uncommitted,   \* number of trailing rows of categories not yet committed
    clock,         \* CURRENT_TIMESTAMP, in seconds since the file was created
    last           \* the last call: its operation, arguments and outcome

vars == <<opened, categories, transactions, budgets, goals, accounts, uncommitted, clock, last>>

(***************************************************************************)
(* Bounds of the model.                                                    *)
(***************************************************************************)
MaxTx == 2          \* rows of transactions
MaxBudgets == 1     \* rows of budgets
MaxGoals == 2       \* rows of goals
MaxProgress == 500  \* largest current_amount of a goal, either sign
MaxClock == 1       \* seconds that pass

\* Days, ordered like ISO dates.  Day 2 is datetime.date.today() and
\* date('now'); it is the second day of its month, so that day 1 is
\* today.replace(day=1), day 0 lies in the previous month and day 3 in the
\* future.
Days == {0, 1, 2, 3}
today == 2
current_month == today - 1

ValidPeriods == {"weekly", "monthly", "yearly"}
ValidTypes == {"income", "expense"}

\* alert_threshold REAL DEFAULT 0.8, kept as the percentage threshold * 100.
DefaultAlertThreshold == 80

NoError == "none"

\* None and NULL; a value v that may be None is <<v>>.
None == <<>>

\* The default set, names transliterated.
default_categories ==
    << [name |-> "Zarplata", type |-> "income"],
       [name |-> "Frilans", type |-> "income"],
       [name |-> "Investicii", type |-> "income"],
       [name |-> "Eda i razvlecheniya", type |-> "expense"],
       [name |-> "Transport", type |-> "expense"],
       [name |-> "Pokupki", type |-> "expense"],
       [name |-> "Razvlecheniya", type |-> "expense"],
       [name |-> "Scheta i kommunalnye", type |-> "expense"],
       [name |-> "Zdorove", type |-> "expense"],
       [name |-> "Obrazovanie", type |-> "expense"] >>

(***************************************************************************)
(* The database as one value, so that the operations are functions on it.  *)
(***************************************************************************)
DB == [categories |-> categories, transactions |-> transactions,
       budgets |-> budgets, goals |-> goals, accounts |-> accounts,
       uncommitted |-> uncommitted]

\* self.conn.commit()
Commit(db) == [db EXCEPT !.uncommitted = 0]

\* What a new connection to the file sees: the committed rows only.
Committed(db) ==
    [db EXCEPT !.categories = SubSeq(db.categories, 1, Len(db.categories) - db.uncommitted),
               !.uncommitted = 0]

\* The rows of transactions with their ids, as a set.
TxIds(db) == DOMAIN db.transactions

\* FROM transactions t JOIN categories c ON t.category_id = c.id
Joined(db) == {i \in TxIds(db) : db.transactions[i].category_id \in DOMAIN db.categories}

RECURSIVE SumAmounts(_, _)
SumAmounts(db, ids) ==
    IF ids = {} THEN 0
    ELSE LET i == CHOOSE j \in ids : TRUE
         IN db.transactions[i].amount + SumAmounts(db, ids \ {i})

(***************************************************************************)
(* populate_default_categories                                             *)
(***************************************************************************)
\* A seeding that does not look at the registry first.
populate_always(db) == Commit([db EXCEPT !.categories = @ \o default_categories])

populate_default_categories(db) ==
    IF Len(db.categories) = 0
    THEN Commit([db EXCEPT !.categories = default_categories])
    ELSE db

(***************************************************************************)
(* update_balance_after_transaction                                        *)
(***************************************************************************)
\* A balance update that ignores the category's type.
update_balance_always_adds(db, amount, category_id) ==
    IF category_id \notin DOMAIN db.categories
    THEN [db |-> db, error |-> "TypeError"]
    ELSE IF db.accounts = <<>>
         THEN [db |-> db, error |-> NoError]
         ELSE [db |-> Commit([db EXCEPT !.accounts[1].balance = @ + amount]), error |-> NoError]

\* A balance update without WHERE id = ?: it posts to every account.
update_balance_of_every_account(db, amount, category_id) ==
    IF category_id \notin DOMAIN db.categories
    THEN [db |-> db, error |-> "TypeError"]
    ELSE LET delta == IF db.categories[category_id].type = "income" THEN amount ELSE 0 - amount
             acc == [k \in DOMAIN db.accounts |->
                       [db.accounts[k] EXCEPT !.balance = @ + delta]]
         IN IF db.accounts = <<>>
            THEN [db |-> db, error |-> NoError]
            ELSE [db |-> Commit([db EXCEPT !.accounts = acc]), error |-> NoError]

update_balance_after_transaction(db, amount, category_id) ==
    IF category_id \notin DOMAIN db.categories
    THEN \* cursor.fetchone() is None: None[0] raises TypeError
         [db |-> db, error |-> "TypeError"]
    ELSE LET category_type == db.categories[category_id].type
         IN IF db.accounts = <<>>
            THEN [db |-> db, error |-> NoError]
            ELSE LET delta == IF category_type = "income" THEN amount ELSE 0 - amount
                     acc == [db.accounts EXCEPT ![1].balance = @ + delta]
                 IN [db |-> Commit([db EXCEPT !.accounts = acc]), error |-> NoError]

(***************************************************************************)
(* add_transaction                                                         *)
(***************************************************************************)
\* An append that puts the new row before the stored ones.
add_transaction_prepends(db, amount, description, category_id, date, now) ==
    LET row == [amount |-> amount, description |-> description,
                category_id |-> category_id, date |-> date, created_at |-> now]
        inserted == Commit([db EXCEPT !.transactions = <<row>> \o @])
        upd == update_balance_after_transaction(inserted, amount, category_id)
    IN [db |-> upd.db, error |-> upd.error,
        ret |-> IF upd.error = NoError THEN Len(inserted.transactions) ELSE 0]

add_transaction(db, amount, description, category_id, date, now) ==
    LET row == [amount |-> amount, description |-> description,
                category_id |-> category_id, date |-> date, created_at |-> now]
        inserted == Commit([db EXCEPT !.transactions = Append(@, row)])
        transaction_id == Len(inserted.transactions)
        upd == update_balance_after_transaction(inserted, amount, category_id)
    IN [db |-> upd.db, error |-> upd.error,
        ret |-> IF upd.error = NoError THEN transaction_id ELSE 0]

(***************************************************************************)
(* get_transactions.  An argument is <<>> for None and <<v>> for the value *)
(* v; a category_id or limit that is None or 0 is falsy and is not         *)
(* applied, and so is a date that is None (a day is a non-empty string).   *)
(* The rows come ordered by date DESC, created_at DESC; SQL leaves the     *)
(* order of ties open, SQLite returns them in the order of its scan, by    *)
(* rowid.                                                                  *)
(***************************************************************************)
Truthy(x) == x # None /\ x[1] # 0

Before(db, i, j) ==
    LET a == db.transactions[i]
        b == db.transactions[j]
    IN \/ a.date > b.date
       \/ a.date = b.date /\ a.created_at > b.created_at
       \/ a.date = b.date /\ a.created_at = b.created_at /\ i < j

RECURSIVE OrderBy(_, _)
OrderBy(db, ids) ==
    IF ids = {} THEN <<>>
    ELSE LET first == CHOOSE i \in ids : \A j \in ids \ {i} : Before(db, i, j)
         IN <<first>> \o OrderBy(db, ids \ {first})

\* One row of the result: t.id, t.amount, t.description, c.name, c.type, t.date
ResultRow(db, i) ==
    LET t == db.transactions[i]
    IN [id |-> i, amount |-> t.amount, description |-> t.description,
        name |-> db.categories[t.category_id].name,
        type |-> db.categories[t.category_id].type, date |-> t.date]

get_transactions(db, start_date, end_date, category_id, limit) ==
    LET ids == {i \in Joined(db) :
                   /\ start_date # None => db.transactions[i].date >= start_date[1]
                   /\ end_date # None => db.transactions[i].date <= end_date[1]
                   /\ Truthy(category_id) => db.transactions[i].category_id = category_id[1]}
        ordered == OrderBy(db, ids)
        \* LIMIT n: a negative n is no limit
        capped == IF Truthy(limit) /\ limit[1] >= 0 /\ limit[1] < Len(ordered)
                  THEN SubSeq(ordered, 1, limit[1]) ELSE ordered
    IN [k \in DOMAIN capped |-> ResultRow(db, capped[k])]

(***************************************************************************)
(* get_balance_summary                                                     *)
(***************************************************************************)
\* The join of a category type that takes every row for income.
OfTypeAllIncome(db, type) == IF type = "income" THEN Joined(db) ELSE {}

OfType(db, type) == {i \in Joined(db) : db.categories[db.transactions[i].category_id].type = type}

\* A summary whose monthly figures leave out the first day of the month.
get_balance_summary_after_first(db) ==
    LET total_income == SumAmounts(db, OfType(db, "income"))
        total_expenses == SumAmounts(db, OfType(db, "expense"))
        monthly_income ==
            SumAmounts(db, {i \in OfType(db, "income") : db.transactions[i].date > current_month})
        monthly_expenses ==
            SumAmounts(db, {i \in OfType(db, "expense") : db.transactions[i].date > current_month})
    IN [total_income |-> total_income,
        total_expenses |-> total_expenses,
        net_worth |-> total_income - total_expenses,
        monthly_income |-> monthly_income,
        monthly_expenses |-> monthly_expenses,
        monthly_savings |-> monthly_income - monthly_expenses]

get_balance_summary(db) ==
    LET total_income == SumAmounts(db, OfType(db, "income"))
        total_expenses == SumAmounts(db, OfType(db, "expense"))
        monthly_income ==
            SumAmounts(db, {i \in OfType(db, "income") : db.transactions[i].date >= current_month})
        monthly_expenses ==
            SumAmounts(db, {i \in OfType(db, "expense") : db.transactions[i].date >= current_month})
    IN [total_income |-> total_income,
        total_expenses |-> total_expenses,
        net_worth |-> total_income - total_expenses,
        monthly_income |-> monthly_income,
        monthly_expenses |-> monthly_expenses,
        monthly_savings |-> monthly_income - monthly_expenses]

(***************************************************************************)
(* create_budget.  The period is checked by the table's CHECK constraint;  *)
(* foreign keys are not enforced (PRAGMA foreign_keys is never set).       *)
(***************************************************************************)
create_budget(db, category_id, amount, period, start_date, end_date) ==
    IF period \notin ValidPeriods
    THEN [db |-> db, error |-> "IntegrityError", ret |-> 0]
    ELSE LET row == [category_id |-> category_id, amount |-> amount, period |-> period,
                     start_date |-> start_date, end_date |-> end_date,
                     alert_threshold |-> DefaultAlertThreshold]
             inserted == Commit([db EXCEPT !.budgets = Append(@, row)])
         IN [db |-> inserted, error |-> NoError, ret |-> Len(inserted.budgets)]

(***************************************************************************)
(* check_budget_status.  A percentage is the fraction num / den, den > 0;  *)
(* alert_threshold holds threshold * 100.                                  *)
(***************************************************************************)
ActiveBudgets(db) ==
    {b \in DOMAIN db.budgets :
        /\ db.budgets[b].category_id \in DOMAIN db.categories
        /\ db.budgets[b].end_date >= today}

\* A spend that leaves out the last day of the window.
SpentBeforeEnd(db, category, start_date, end_date) ==
    SumAmounts(db, {i \in Joined(db) :
                      /\ db.categories[db.transactions[i].category_id].name = category
                      /\ db.transactions[i].date >= start_date
                      /\ db.transactions[i].date < end_date})

\* A spend that takes the transactions of every category.
SpentOfAnyCategory(db, category, start_date, end_date) ==
    SumAmounts(db, {i \in Joined(db) :
                      /\ db.transactions[i].date >= start_date
                      /\ db.transactions[i].date <= end_date})

Spent(db, category, start_date, end_date) ==
    SumAmounts(db, {i \in Joined(db) :
                      /\ db.categories[db.transactions[i].category_id].name = category
                      /\ db.transactions[i].date >= start_date
                      /\ db.transactions[i].date <= end_date})

BudgetStatus(db, b) ==
    LET budget == db.budgets[b]
        amount == budget.amount
        category == db.categories[budget.category_id].name
        spent == Spent(db, category, budget.start_date, budget.end_date)
        percentage == IF amount > 0 THEN [num |-> spent * 100, den |-> amount]
                      ELSE [num |-> 0, den |-> 1]
    IN [category |-> category,
        budget |-> amount,
        spent |-> spent,
        remaining |-> amount - spent,
        percentage |-> percentage,
        alert |-> percentage.num >= budget.alert_threshold * percentage.den,
        period |-> budget.period]

RECURSIVE StatusOf(_, _)
StatusOf(db, bs) ==
    IF bs = {} THEN <<>>
    ELSE LET b == CHOOSE x \in bs : \A y \in bs : x <= y
         IN <<BudgetStatus(db, b)>> \o StatusOf(db, bs \ {b})

check_budget_status(db) == StatusOf(db, ActiveBudgets(db))

(***************************************************************************)
(* add_goal, update_goal_progress and get_goals.  A target_date is <<>>    *)
(* for NULL and <<d>> for the day d.                                       *)
(***************************************************************************)
add_goal(db, name, target_amount, target_date, priority) ==
    LET row == [name |-> name, target_amount |-> target_amount, current_amount |-> 0,
                target_date |-> target_date, priority |-> priority, achieved |-> FALSE]
        inserted == Commit([db EXCEPT !.goals = Append(@, row)])
    IN [db |-> inserted, error |-> NoError, ret |-> Len(inserted.goals)]

\* A progress update that recomputes the flag from the amounts.
update_goal_progress_recomputes(db, goal_id, amount) ==
    IF goal_id \notin DOMAIN db.goals
    THEN [db |-> Commit(db), error |-> NoError]
    ELSE LET g == db.goals[goal_id]
             current == g.current_amount + amount
             row == [g EXCEPT !.current_amount = current,
                              !.achieved = current >= g.target_amount]
         IN [db |-> Commit([db EXCEPT !.goals[goal_id] = row]), error |-> NoError]

update_goal_progress(db, goal_id, amount) ==
    IF goal_id \notin DOMAIN db.goals
    THEN \* both UPDATEs match no row, which is no error
         [db |-> Commit(db), error |-> NoError]
    ELSE LET g == db.goals[goal_id]
             current == g.current_amount + amount
             row == [g EXCEPT !.current_amount = current,
                              !.achieved = @ \/ current >= g.target_amount]
         IN [db |-> Commit([db EXCEPT !.goals[goal_id] = row]), error |-> NoError]

\* ORDER BY priority, target_date: SQLite sorts NULL before every value;
\* ties come in the order of the scan, by rowid.
GoalBefore(db, i, j) ==
    LET a == db.goals[i]
        b == db.goals[j]
        DateLess == \/ a.target_date = None /\ b.target_date # None
                    \/ a.target_date # None /\ b.target_date # None
                          /\ a.target_date[1] < b.target_date[1]
    IN \/ a.priority < b.priority
       \/ a.priority = b.priority /\ DateLess
       \/ a.priority = b.priority /\ a.target_date = b.target_date /\ i < j

RECURSIVE OrderGoals(_, _)
OrderGoals(db, ids) ==
    IF ids = {} THEN <<>>
    ELSE LET first == CHOOSE i \in ids : \A j \in ids \ {i} : GoalBefore(db, i, j)
         IN <<first>> \o OrderGoals(db, ids \ {first})

\* ROUND(x, 2) of x = num / den * 100, in hundredths: half away from zero.
Abs(n) == IF n < 0 THEN 0 - n ELSE n
Round2(num, den) ==
    LET n == Abs(num) * 10000
        d == Abs(den)
        q == (2 * n + d) \div (2 * d)
    IN IF (num < 0) # (den < 0) THEN 0 - q ELSE q

\* One row of get_goals; progress is NULL when target_amount is 0 (SQLite
\* divides by zero to NULL), else the percentage in hundredths.
GoalRow(db, i) ==
    LET g == db.goals[i]
    IN [id |-> i, name |-> g.name, target_amount |-> g.target_amount,
        current_amount |-> g.current_amount, target_date |-> g.target_date,
        priority |-> g.priority, achieved |-> g.achieved,
        progress |-> IF g.target_amount = 0 THEN None
                     ELSE <<Round2(g.current_amount, g.target_amount)>>]

get_goals(db) ==
    LET ordered == OrderGoals(db, DOMAIN db.goals)
    IN [k \in DOMAIN ordered |-> GoalRow(db, ordered[k])]

(***************************************************************************)
(* generate_monthly_report.  The calendar is that of datetime.date: a date *)
(* is [year, month, day], its ordinal the number of days since 0001-01-01  *)
(* plus one.  A ledger date, an ISO string, is modelled by its ordinal,    *)
(* which orders four-digit years like the strings.                         *)
(***************************************************************************)
MINYEAR == 1
MAXYEAR == 9999

is_leap(year) == year % 4 = 0 /\ (year % 100 # 0 \/ year % 400 = 0)

DAYS_IN_MONTH == <<31, 28, 31, 30, 31, 30, 31, 31, 30, 31, 30, 31>>
DAYS_BEFORE_MONTH == <<0, 31, 59, 90, 120, 151, 181, 212, 243, 273, 304, 334>>

days_before_year(year) ==
    LET y == year - 1
    IN y * 365 + (y \div 4) - (y \div 100) + (y \div 400)

days_in_month(year, month) ==
    IF month = 2 /\ is_leap(year) THEN 29 ELSE DAYS_IN_MONTH[month]

days_before_month(year, month) ==
    DAYS_BEFORE_MONTH[month] + (IF month > 2 /\ is_leap(year) THEN 1 ELSE 0)

\* datetime.date(year, month, day) raises ValueError outside these ranges.
ValidDate(year, month, day) ==
    /\ year >= MINYEAR /\ year <= MAXYEAR
    /\ month >= 1 /\ month <= 12
    /\ day >= 1 /\ day <= days_in_month(year, month)

ymd2ord(year, month, day) ==
    days_before_year(year) + days_before_month(year, month) + day

ord2ymd(ordinal) ==
    LET n0 == ordinal - 1
        n400 == n0 \div 146097
        r400 == n0 % 146097
        n100 == r400 \div 36524
        r100 == r400 % 36524
        n4 == r100 \div 1461
        r4 == r100 % 1461
        n1 == r4 \div 365
        n == r4 % 365
        year == n400 * 400 + 1 + n100 * 100 + n4 * 4 + n1
    IN IF n1 = 4 \/ n100 = 4
       THEN [year |-> year - 1, month |-> 12, day |-> 31]
       ELSE LET leapyear == n1 = 3 /\ (n4 # 24 \/ n100 = 3)
                guess == (n + 50) \div 32
                preceding == DAYS_BEFORE_MONTH[guess] + (IF guess > 2 /\ leapyear THEN 1 ELSE 0)
                month == IF preceding > n THEN guess - 1 ELSE guess
                before == IF preceding > n
                          THEN preceding - (DAYS_IN_MONTH[month]
                                            + (IF month = 2 /\ leapyear THEN 1 ELSE 0))
                          ELSE preceding
            IN [year |-> year, month |-> month, day |-> n - before + 1]

\* The first day of the month after (year, month), as the code picks it.
NextMonth(year, month) ==
    IF month = 12 THEN [year |-> year + 1, month |-> 1, day |-> 1]
    ELSE [year |-> year, month |-> month + 1, day |-> 1]

\* SELECT c.type, SUM(t.amount) ... WHERE t.date BETWEEN ? AND ? GROUP BY c.type
TypeTotal(db, type, start_ord, end_ord) ==
    SumAmounts(db, {i \in OfType(db, type) :
                      /\ db.transactions[i].date >= start_ord
                      /\ db.transactions[i].date <= end_ord})

generate_monthly_report(db, year, month) ==
    LET next_month == NextMonth(year, month)
    IN IF ~ValidDate(next_month.year, next_month.month, next_month.day)
       THEN [error |-> "ValueError"]
       ELSE
       LET last_day == ord2ymd(ymd2ord(next_month.year, next_month.month, 1) - 1).day
           start_date == [year |-> year, month |-> month, day |-> 1]
           end_date == [year |-> year, month |-> month, day |-> last_day]
           start_ord == ymd2ord(year, month, 1)
           end_ord == ymd2ord(year, month, last_day)
           income == TypeTotal(db, "income", start_ord, end_ord)
           expenses == TypeTotal(db, "expense", start_ord, end_ord)
       IN [error |-> NoError,
           period |-> <<year, month>>,
           start_date |-> start_date,
           end_date |-> end_date,
           income |-> income,
           expenses |-> expenses,
           savings |-> income - expenses,
           savings_rate |-> IF income > 0
                            THEN [num |-> (income - expenses) * 100, den |-> income]
                            ELSE [num |-> 0, den |-> 1]]

(***************************************************************************)
(* get_category_spending.  One row per category that has a transaction     *)
(* dated on or after the start of the period: [name, total, type] (the     *)
(* colour, which no caller of the model reads, is left out), ordered by    *)
(* total DESC; categories of equal total come in the order of the groups,  *)
(* by c.id.                                                                *)
(***************************************************************************)
current_year == current_month - 1    \* the first day of the year
all_time == current_year - 1         \* '1900-01-01'

PeriodStart(period) ==
    IF period = "monthly" THEN current_month
    ELSE IF period = "yearly" THEN current_year
    ELSE all_time

\* The rows of category c dated start_date or later.
Since(db, c, start_date) ==
    {i \in TxIds(db) : /\ db.transactions[i].category_id = c
                       /\ db.transactions[i].date >= start_date}

RECURSIVE OrderByTotal(_, _, _)
OrderByTotal(db, cs, start_date) ==
    IF cs = {} THEN <<>>
    ELSE LET total(c) == SumAmounts(db, Since(db, c, start_date))
             first == CHOOSE c \in cs : \A d \in cs \ {c} :
                         \/ total(c) > total(d)
                         \/ total(c) = total(d) /\ c < d
         IN <<first>> \o OrderByTotal(db, cs \ {first}, start_date)

get_category_spending(db, period) ==
    LET start_date == PeriodStart(period)
        groups == {c \in DOMAIN db.categories : Since(db, c, start_date) # {}}
        ordered == OrderByTotal(db, groups, start_date)
    IN [k \in DOMAIN ordered |->
          [name |-> db.categories[ordered[k]].name,
           total |-> SumAmounts(db, Since(db, ordered[k], start_date)),
           type |-> db.categories[ordered[k]].type]]

(***************************************************************************)
(* get_financial_insights.  A message is a record: its text by name, and   *)
(* the numbers formatted into it.                                          *)
(***************************************************************************)
\* f"{x:.1f}" of x = num / den (den > 0), in tenths: round half to even.
Format1(num, den) ==
    LET n == Abs(num) * 10
        q == n \div den
        r == n % den
        up == 2 * r > den \/ (2 * r = den /\ q % 2 = 1)
        m == IF up THEN q + 1 ELSE q
    IN IF num < 0 THEN 0 - m ELSE m

\* max(rows, key = total, default = None): the first row of the greatest total.
MaxByTotal(rows) ==
    IF rows = <<>> THEN None
    ELSE LET k == CHOOSE i \in DOMAIN rows :
                     /\ \A j \in DOMAIN rows : rows[j].total <= rows[i].total
                     /\ \A j \in 1..(i - 1) : rows[j].total < rows[i].total
         IN <<rows[k]>>

\* Savings-rate messages whose second test is not an alternative of the first.
SavingsMessagesBothTiers(summary) ==
    IF summary.monthly_income > 0
    THEN LET num == summary.monthly_savings * 100
             den == summary.monthly_income
             rate == Format1(num, den)
             top == IF num >= 20 * den
                    THEN <<[text |-> "excellent", rate |-> rate]>> ELSE <<>>
         IN IF num >= 10 * den
            THEN <<  <<>>, top \o <<[text |-> "good", rate |-> rate]>>  >>
            ELSE <<  <<[text |-> "increase_savings", rate |-> rate]>>, <<>>  >>
    ELSE <<  <<>>, <<>>  >>

\* The savings-rate messages, as a pair <<recommendations, achievements>>.
SavingsMessages(summary) ==
    IF summary.monthly_income > 0
    THEN LET num == summary.monthly_savings * 100
             den == summary.monthly_income
             rate == Format1(num, den)
         IN IF num >= 20 * den
            THEN <<  <<>>, <<[text |-> "excellent", rate |-> rate]>>  >>
            ELSE IF num >= 10 * den
                 THEN <<  <<>>, <<[text |-> "good", rate |-> rate]>>  >>
                 ELSE <<  <<[text |-> "increase_savings", rate |-> rate]>>, <<>>  >>
    ELSE <<  <<>>, <<>>  >>

\* The message lists, from the summary and the category spending.
Insights(summary, category_spending) ==
    LET over == summary.monthly_expenses > summary.monthly_income
        savings == SavingsMessages(summary)
        expense_rows == SelectSeq(category_spending, LAMBDA cat : cat.type = "expense")
        top_expense == IF category_spending # <<>> THEN MaxByTotal(expense_rows) ELSE None
    IN [spending_habits |->
            IF top_expense # None
            THEN <<[text |-> "top_category", name |-> top_expense[1].name,
                    total |-> top_expense[1].total]>>
            ELSE <<>>,
        recommendations |->
            (IF over THEN <<[text |-> "review_expenses"]>> ELSE <<>>) \o savings[1],
        warnings |-> IF over THEN <<[text |-> "overspending"]>> ELSE <<>>,
        achievements |-> savings[2]]

\* Insights that take the category spending of all time.
get_financial_insights_all_time(db) ==
    Insights(get_balance_summary(db), get_category_spending(db, "all"))

get_financial_insights(db) ==
    Insights(get_balance_summary(db), get_category_spending(db, "monthly"))

(***************************************************************************)
(* import_data.  A row of the file is [Category, Type, Amount, Description,*)
(* Date]; Type is NoColumn when the file has no Type column.  Amount is    *)
(* text, parsed by float().  Every exception ends the loop and is printed. *)
(***************************************************************************)
NoColumn == "<absent>"

\* The texts of the model and what float() makes of them; float() raises
\* ValueError on any other text.
FloatTexts == {<<"300.0", 300>>, <<"1000.0", 1000>>, <<"-5.0", -5>>, <<"0.0", 0>>}

CanParse(text) == \E p \in FloatTexts : p[1] = text
float(text) == (CHOOSE p \in FloatTexts : p[1] = text)[2]

\* A lookup that finds no category.
CategoryByNameFindsNone(db, name) == {}

CategoryByName(db, name) == {c \in DOMAIN db.categories : db.categories[c].name = name}

RECURSIVE import_rows(_, _, _, _)
import_rows(db, rows, now, done) ==
    IF rows = <<>> THEN [db |-> db, error |-> NoError, done |-> done]
    ELSE
    LET row == Head(rows)
        category == CategoryByName(db, row.Category)
        type == IF row.Type = NoColumn THEN "expense" ELSE row.Type
    IN IF category = {} /\ type \notin ValidTypes
       THEN \* CHECK(type IN ('income', 'expense')) fails, nothing is inserted
            [db |-> db, error |-> "IntegrityError", done |-> done]
       ELSE
       LET created == IF category = {}
                      THEN [db EXCEPT !.categories = Append(@, [name |-> row.Category, type |-> type]),
                                      !.uncommitted = @ + 1]
                      ELSE db
           category_id == IF category = {} THEN Len(created.categories)
                          ELSE CHOOSE c \in category : TRUE
       IN IF ~CanParse(row.Amount)
          THEN [db |-> created, error |-> "ValueError", done |-> done]
          ELSE LET r == add_transaction(created, float(row.Amount), row.Description,
                                        category_id, row.Date, now)
               IN IF r.error # NoError
                  THEN [db |-> r.db, error |-> r.error, done |-> done]
                  ELSE import_rows(r.db, Tail(rows), now, done + 1)

\* An import that undoes the rows of the file when one of them fails.
import_data_rolls_back(db, rows, now) ==
    LET r == import_rows(db, rows, now, 0)
    IN IF r.error # NoError THEN [db |-> db, error |-> r.error, done |-> 0] ELSE r

import_data(db, rows, now) == import_rows(db, rows, now, 0)

(***************************************************************************)
(* export_data and the file it writes.  A text is a string; the file is a  *)
(* sequence of characters, in which a run of characters that are neither   *)
(* comma, quote, carriage return nor line feed counts as one character.    *)
(* Of the columns the model keeps ID, Amount, Description, Category, Type  *)
(* and Date.                                                               *)
(***************************************************************************)
COMMA == ","
QUOTE == "\""
CR == "\r"
LF == "\n"

\* The texts of the model that hold one of the four characters.
SpecialTexts == {"a,b", "q\"q", "a\rb", "a\nb", "a\r\nb"}

\* The characters of a text.
Characters(text) ==
    CASE text = "a,b" -> <<"a", COMMA, "b">>
      [] text = "q\"q" -> <<"q", QUOTE, "q">>
      [] text = "a\rb" -> <<"a", CR, "b">>
      [] text = "a\nb" -> <<"a", LF, "b">>
      [] text = "a\r\nb" -> <<"a", CR, LF, "b">>
      [] OTHER -> <<text>>

\* The text of the characters.
TextOf(chars) ==
    IF Len(chars) = 1 THEN chars[1]
    ELSE CHOOSE text \in SpecialTexts : Characters(text) = chars

\* repr() of a float, the inverse of float().
repr(amount) == (CHOOSE p \in FloatTexts : p[2] = amount)[1]

\* str() of an id; a day is written as the date string it stands for.
str(n) == ToString(n)
DayOf(text) == CHOOSE d \in Days : ToString(d) = text

\* csv.writer, QUOTE_MINIMAL: a field that holds the delimiter, the quote or
\* a character of the line terminator is quoted, its quotes doubled.
RECURSIVE DoubleQuotes(_)
DoubleQuotes(chars) ==
    IF chars = <<>> THEN <<>>
    ELSE (IF Head(chars) = QUOTE THEN <<QUOTE, QUOTE>> ELSE <<Head(chars)>>)
            \o DoubleQuotes(Tail(chars))

WriteField(chars) ==
    IF \E k \in DOMAIN chars : chars[k] \in {COMMA, QUOTE, CR, LF}
    THEN <<QUOTE>> \o DoubleQuotes(chars) \o <<QUOTE>>
    ELSE chars

\* writer.writerow: the fields, comma between them, '\r\n' after them.
RECURSIVE writerow(_)
writerow(fields) ==
    IF Len(fields) = 1 THEN WriteField(fields[1]) \o <<CR, LF>>
    ELSE WriteField(fields[1]) \o <<COMMA>> \o writerow(Tail(fields))

RECURSIVE writerows(_)
writerows(rows) ==
    IF rows = <<>> THEN <<>>
    ELSE writerow(Head(rows)) \o writerows(Tail(rows))

Header == << <<"ID">>, <<"Amount">>, <<"Description">>, <<"Category">>, <<"Type">>, <<"Date">> >>

\* The fields of one row of get_transactions, as the writer converts them.
ExportRow(r) ==
    << <<str(r.id)>>, <<repr(r.amount)>>, Characters(r.description),
       Characters(r.name), <<r.type>>, <<str(r.date)>> >>

\* The content of the file export_data writes (format 'csv').
export_data(db) ==
    LET transactions_ == get_transactions(db, None, None, None, None)
    IN writerow(Header) \o writerows([k \in DOMAIN transactions_ |-> ExportRow(transactions_[k])])

(***************************************************************************)
(* Reading the file in import_data: open(filename, 'r') translates line    *)
(* ends, csv.DictReader splits what is left into rows of fields.           *)
(***************************************************************************)
\* A text file opened without newline='': '\r\n' and '\r' are read as '\n'.
RECURSIVE UniversalNewlines(_)
UniversalNewlines(chars) ==
    IF chars = <<>> THEN <<>>
    ELSE IF Head(chars) = CR
         THEN IF Len(chars) > 1 /\ chars[2] = LF
              THEN <<LF>> \o UniversalNewlines(Tail(Tail(chars)))
              ELSE <<LF>> \o UniversalNewlines(Tail(chars))
         ELSE <<Head(chars)>> \o UniversalNewlines(Tail(chars))

\* csv.reader: state is where the parser stands ("start" of a field, in a
\* "field", in a "quoted" field, after a "quote" in a quoted field), field
\* and row are what it has gathered, rows what it has returned.
RECURSIVE reader(_, _, _, _, _)
reader(chars, state, field, row, rows) ==
    IF chars = <<>>
    THEN IF state = "start" /\ row = <<>> THEN rows ELSE Append(rows, Append(row, field))
    ELSE LET c == Head(chars)
             rest == Tail(chars)
         IN IF state = "quoted"
            THEN IF c = QUOTE THEN reader(rest, "quote", field, row, rows)
                 ELSE reader(rest, "quoted", Append(field, c), row, rows)
            ELSE IF c = QUOTE /\ state = "start" THEN reader(rest, "quoted", field, row, rows)
            ELSE IF c = QUOTE /\ state = "quote" THEN reader(rest, "quoted", Append(field, c), row, rows)
            ELSE IF c = COMMA THEN reader(rest, "start", <<>>, Append(row, field), rows)
            ELSE IF c \in {CR, LF}
                 THEN IF state = "start" /\ row = <<>>
                      THEN reader(rest, "start", <<>>, <<>>, rows)   \* an empty line
                      ELSE reader(rest, "start", <<>>, <<>>, Append(rows, Append(row, field)))
            ELSE reader(rest, "field", Append(field, c), row, rows)

\* row[name] of a DictReader row: None when the file has no such column.
Column(fieldnames, row, name) ==
    IF \E k \in DOMAIN fieldnames : fieldnames[k] = <<name>> /\ k \in DOMAIN row
    THEN <<TextOf(row[CHOOSE k \in DOMAIN fieldnames : fieldnames[k] = <<name>>])>>
    ELSE None

\* The rows of the file as import_data reads them.
DictReader(file) ==
    LET lines == reader(UniversalNewlines(file), "start", <<>>, <<>>, <<>>)
        fieldnames == Head(lines)
        body == Tail(lines)
    IN [k \in DOMAIN body |->
          [Category |-> Column(fieldnames, body[k], "Category")[1],
           Type |-> IF Column(fieldnames, body[k], "Type") = None THEN NoColumn
                    ELSE Column(fieldnames, body[k], "Type")[1],
           Amount |-> Column(fieldnames, body[k], "Amount")[1],
           Description |-> Column(fieldnames, body[k], "Description")[1],
           Date |-> DayOf(Column(fieldnames, body[k], "Date")[1])]]

\* A tracker constructed on a file that does not exist yet.
EmptyLedger ==
    populate_default_categories(
        [categories |-> <<>>, transactions |-> <<>>, budgets |-> <<>>, goals |-> <<>>,
         accounts |-> <<>>, uncommitted |-> 0])

(***************************************************************************)
(* The state machine.                                                      *)
(***************************************************************************)
Store(db) ==
    /\ categories' = db.categories
    /\ transactions' = db.transactions
    /\ budgets' = db.budgets
    /\ goals' = db.goals
    /\ accounts' = db.accounts
    /\ uncommitted' = db.uncommitted

\* The database file before the first tracker is constructed on it.  No
\* statement of the program inserts an account: the rows of accounts are those
\* the file already holds.
InitAccounts ==
    { <<>>,
      << [id |-> 1, balance |-> 0] >>,
      << [id |-> 2, balance |-> 50], [id |-> 1, balance |-> 0] >> }

Init ==
    /\ opened = FALSE
    /\ categories = <<>>
    /\ transactions = <<>>
    /\ budgets = <<>>
    /\ goals = <<>>
    /\ accounts \in InitAccounts
    /\ uncommitted = 0
    /\ clock = 0
    /\ last = [op |-> "none", error |-> NoError]

\* __init__: connect to the file and run init_database, which creates the
\* tables that do not exist yet and calls populate_default_categories.
Construct ==
    /\ Store(populate_default_categories(Committed(DB)))
    /\ opened' = TRUE
    /\ last' = [op |-> "init_database", error |-> NoError, before |-> Len(Committed(DB).categories)]
    /\ UNCHANGED clock

AddTransaction(amount, category_id, date) ==
    /\ opened
    /\ Len(transactions) < MaxTx
    /\ LET r == add_transaction(DB, amount, "d", category_id, date, clock)
       IN /\ Store(r.db)
          /\ last' = [op |-> "add_transaction", error |-> r.error, ret |-> r.ret,
                      amount |-> amount, category_id |-> category_id, date |-> date]
    /\ UNCHANGED <<opened, clock>>

CreateBudget(category_id, amount, period, start_date, end_date) ==
    /\ opened
    /\ Len(budgets) < MaxBudgets
    /\ LET r == create_budget(DB, category_id, amount, period, start_date, end_date)
       IN /\ Store(r.db)
          /\ last' = [op |-> "create_budget", error |-> r.error, ret |-> r.ret,
                      category_id |-> category_id, amount |-> amount]
    /\ UNCHANGED <<opened, clock>>

AddGoal(target_amount, target_date, priority) ==
    /\ opened
    /\ Len(goals) < MaxGoals
    /\ LET r == add_goal(DB, "g", target_amount, target_date, priority)
       IN /\ Store(r.db)
          /\ last' = [op |-> "add_goal", error |-> r.error, ret |-> r.ret,
                      target_amount |-> target_amount]
    /\ UNCHANGED <<opened, clock>>

\* The amounts of a goal stay within the model: from -MaxProgress to MaxProgress.
UpdateGoalProgress(goal_id, amount) ==
    /\ opened
    /\ goal_id \in DOMAIN goals =>
          /\ goals[goal_id].current_amount + amount <= MaxProgress
          /\ goals[goal_id].current_amount + amount >= 0 - MaxProgress
    /\ LET r == update_goal_progress(DB, goal_id, amount)
       IN /\ Store(r.db)
          /\ last' = [op |-> "update_goal_progress", error |-> r.error,
                      goal_id |-> goal_id, amount |-> amount]
    /\ UNCHANGED <<opened, clock>>

\* A second passes.
Tick ==
    /\ clock < MaxClock
    /\ clock' = clock + 1
    /\ UNCHANGED <<opened, categories, transactions, budgets, goals, accounts, uncommitted, last>>

GenerateMonthlyReport(year, month) ==
    /\ opened
    /\ last' = [op |-> "generate_monthly_report", year |-> year, month |-> month,
                report |-> generate_monthly_report(DB, year, month)]
    /\ UNCHANGED <<opened, categories, transactions, budgets, goals, accounts, uncommitted, clock>>

ImportData(rows) ==
    /\ opened
    /\ Len(transactions) + Len(rows) <= MaxTx
    /\ LET r == import_data(DB, rows, clock)
       IN /\ Store(r.db)
          /\ last' = [op |-> "import_data", error |-> r.error, rows |-> rows, done |-> r.done]
    /\ UNCHANGED <<opened, clock>>

\* add_transaction with a description of the caller's.
AddDescribed(amount, description, category_id, date) ==
    /\ opened
    /\ Len(transactions) < MaxTx
    /\ LET r == add_transaction(DB, amount, description, category_id, date, clock)
       IN /\ Store(r.db)
          /\ last' = [op |-> "add_transaction", error |-> r.error, ret |-> r.ret,
                      amount |-> amount, category_id |-> category_id, date |-> date]
    /\ UNCHANGED <<opened, clock>>

\* export_data(filename, 'csv'): the file is kept in last.
ExportData ==
    /\ opened
    /\ last' = [op |-> "export_data", error |-> NoError, file |-> export_data(DB)]
    /\ UNCHANGED <<opened, categories, transactions, budgets, goals, accounts, uncommitted, clock>>

\* import_data of the file just exported, by a tracker constructed on a new
\* database; that database is kept in last.
ImportExported ==
    /\ opened
    /\ last.op = "export_data"
    /\ LET r == import_data(EmptyLedger, DictReader(last.file), clock)
       IN last' = [op |-> "import_exported", error |-> r.error, db |-> r.db]
    /\ UNCHANGED <<opened, categories, transactions, budgets, goals, accounts, uncommitted, clock>>

\* The queries: each reads the database and returns.
Queries == {"get_transactions", "get_balance_summary", "get_category_spending",
            "check_budget_status", "get_goals", "get_financial_insights"}

Query(op) ==
    /\ opened
    /\ op \in Queries
    /\ last' = [op |-> op, error |-> NoError,
                result |-> CASE op = "get_transactions" -> get_transactions(DB, None, None, None, None)
                             [] op = "get_balance_summary" -> get_balance_summary(DB)
                             [] op = "get_category_spending" -> get_category_spending(DB, "monthly")
                             [] op = "check_budget_status" -> check_budget_status(DB)
                             [] op = "get_goals" -> get_goals(DB)
                             [] op = "get_financial_insights" -> get_financial_insights(DB)]
    /\ UNCHANGED <<opened, categories, transactions, budgets, goals, accounts, uncommitted, clock>>

\* The rows a file is made of: an existing category, new categories with and
\* without a Type, an Amount that is no number, a Type the table rejects.
FileRows ==
    { [Category |-> "Zarplata", Type |-> "income", Amount |-> "1000.0", Description |-> "d", Date |-> 1],
      [Category |-> "Gifts", Type |-> NoColumn, Amount |-> "300.0", Description |-> "d", Date |-> 1],
      [Category |-> "Bonus", Type |-> "income", Amount |-> "300.0", Description |-> "d", Date |-> 0],
      [Category |-> "Gifts", Type |-> NoColumn, Amount |-> "abc", Description |-> "d", Date |-> 1],
      [Category |-> "Misc", Type |-> "transfer", Amount |-> "300.0", Description |-> "d", Date |-> 1] }

\* The files: one row, or two.
Files == {<<r>> : r \in FileRows} \cup {<<r, q>> : r \in FileRows, q \in FileRows}

\* The ledger: construction, append and import.
Next ==
    \/ Construct
    \/ \E amount \in {-5, 0, 300, 1000}, category_id \in {1, 4, 11}, date \in {0, 1, 2} :
          AddTransaction(amount, category_id, date)
    \/ \E rows \in Files : ImportData(rows)

Spec == Init /\ [][Next]_vars

\* The budget monitor, on a file without accounts: transactions around the
\* budget windows, which are expired, ending today, ending later, or inverted.
Windows == {<<1, 1>>, <<1, 2>>, <<2, 3>>, <<2, 1>>}

NextBudget ==
    \/ Construct
    \/ \E amount \in {300}, category_id \in {1, 4}, date \in Days \ {0} :
          AddTransaction(amount, category_id, date)
    \/ \E category_id \in {4, 11}, amount \in {-200, 0, 200}, period \in {"monthly", "daily"},
          window \in Windows :
          CreateBudget(category_id, amount, period, window[1], window[2])

InitBudget == Init /\ accounts = <<>>

SpecBudget == InitBudget /\ [][NextBudget]_vars

\* The goal tracker, on a file without accounts: progress on goals with and
\* without a target.
NextGoals ==
    \/ Construct
    \/ \E target_amount \in {0, 500} : AddGoal(target_amount, None, 1)
    \/ \E goal_id \in 1..(MaxGoals + 1), amount \in {500, 0 - 100} :
          UpdateGoalProgress(goal_id, amount)

SpecGoals == InitBudget /\ [][NextGoals]_vars

\* The goal list: goals of two priorities, with and without a target date.
NextGoalList ==
    \/ Construct
    \/ \E target_date \in {None, <<1>>, <<2>>}, priority \in {1, 2} :
          AddGoal(500, target_date, priority)

SpecGoalList == Init /\ [][NextGoalList]_vars

\* The query: appends to two categories on two days, within one second or
\* seconds apart.
NextQuery ==
    \/ Construct
    \/ \E category_id \in {1, 4}, date \in {1, 2} : AddTransaction(300, category_id, date)
    \/ Tick

SpecQuery == Init /\ [][NextQuery]_vars

\* The monthly report, on a file without accounts: income and expenses on
\* the days around December 2024, reports of leap, common and the last year.
ReportDays == {ymd2ord(2024, 11, 30), ymd2ord(2024, 12, 1),
               ymd2ord(2024, 12, 31), ymd2ord(2025, 1, 1)}
ReportYears == {2023, 2024, MAXYEAR}

NextReport ==
    \/ Construct
    \/ \E category_id \in {1, 4}, date \in ReportDays : AddTransaction(300, category_id, date)
    \/ \E year \in ReportYears, month \in 1..12 : GenerateMonthlyReport(year, month)

SpecReport == InitBudget /\ [][NextReport]_vars

\* The insights, on a file without accounts: income and expenses of two
\* categories, before and within the current month.
InsightAmounts == {300, 850, 1000}
InsightCategories == {1, 4, 5}
InsightDays == {current_year, today}

NextInsights ==
    \/ Construct
    \/ \E amount \in InsightAmounts, category_id \in InsightCategories, date \in InsightDays :
          AddTransaction(amount, category_id, date)

SpecInsights == InitBudget /\ [][NextInsights]_vars

\* The round trip, on a file without accounts: transactions whose
\* descriptions hold commas, quotes and line ends, on seeded, imported and
\* unknown categories, then export and import of the exported file.
Descriptions == {"d", "a,b", "q\"q", "a\rb", "a\nb"}

NextRoundTrip ==
    \/ Construct
    \/ \E description \in Descriptions, category_id \in {1, 11}, date \in {1, 2} :
          AddDescribed(300, description, category_id, date)
    \/ \E r \in FileRows : ImportData(<<r>>)
    \/ ExportData
    \/ ImportExported

SpecRoundTrip == InitBudget /\ [][NextRoundTrip]_vars

\* Every operation, on a file without accounts.
NextAll ==
    \/ Construct
    \/ \E category_id \in {1, 11} : AddTransaction(300, category_id, 1)
    \/ \E r \in FileRows : ImportData(<<r>>)
    \/ \E category_id \in {1, 11} : CreateBudget(category_id, 200, "monthly", current_month, today)
    \/ AddGoal(500, None, 1)
    \/ UpdateGoalProgress(1, MaxProgress)
    \/ GenerateMonthlyReport(2024, 12)
    \/ ExportData
    \/ \E op \in Queries : Query(op)

SpecAll == InitBudget /\ [][NextAll]_vars

(***************************************************************************)
(* The properties.                                                         *)
(***************************************************************************)
Tables == <<categories, transactions, budgets, goals, accounts>>

\* The step is a call of add_transaction.
IsAppend == last'.op = "add_transaction"

KindOf(category_id) == categories[category_id].type

\* The balance the file held for an account before the first tracker.
InitialBalance(id) == IF id = 1 THEN 0 ELSE 50

\* The signed sum of the rows a query with no filters returns.
RECURSIVE SignedSum(_)
SignedSum(rows) ==
    IF rows = <<>> THEN 0
    ELSE (IF Head(rows).type = "income" THEN Head(rows).amount ELSE 0 - Head(rows).amount)
         + SignedSum(Tail(rows))

QueryAll == get_transactions(DB, None, None, None, None)

\* C1: every append with amount <= 0 fails with InvalidAmountError and leaves
\* the ledger, the category registry and every account balance as they were.
C1_InvalidAmountRejected ==
    [][(last'.op = "add_transaction" /\ last'.amount <= 0)
          => (last'.error = "InvalidAmountError" /\ UNCHANGED Tables)]_vars

\* C2: an append whose categoryId does not resolve fails with
\* UnknownCategoryError, and every stored transaction's category reference
\* resolves to an existing category.
C2_CategoryResolves ==
    /\ \A i \in DOMAIN transactions : transactions[i].category_id \in DOMAIN categories
    /\ (last.op = "add_transaction" /\ last.category_id \notin DOMAIN categories)
          => last.error = "UnknownCategoryError"

\* C3: append is atomic: a transaction row and its balance effect become
\* visible together or not at all, so whatever step an append failed at, no
\* read returns a row without its balance effect: the primary account's
\* balance reflects exactly the rows the query returns.
C3_AppendAtomic ==
    accounts # <<>>
          => accounts[1].balance = InitialBalance(accounts[1].id) + SignedSum(QueryAll)

\* C4: after a valid append, the query with no filters returns the appended
\* transaction with its amount unchanged, and every amount it returns is > 0.
C4_AppendThenQuery ==
    /\ (last.op = "add_transaction" /\ last.error = NoError)
          => \E k \in DOMAIN QueryAll :
                QueryAll[k].id = last.ret /\ QueryAll[k].amount = last.amount
    /\ \A k \in DOMAIN QueryAll : QueryAll[k].amount > 0

\* C5: an append to an existing category succeeds, with or without an
\* account; it records the transaction and moves the primary account's
\* balance by +amount for an income category and by -amount for an expense
\* category, no other account changing; with no account, none is created.
C5_SignedDelta ==
    [][/\ (IsAppend /\ last'.category_id \in DOMAIN categories) => last'.error = NoError
       /\ (IsAppend /\ last'.error = NoError) =>
          /\ Len(transactions') = Len(transactions) + 1
          /\ transactions'[Len(transactions')].amount = last'.amount
          /\ Len(accounts') = Len(accounts)
          /\ \A a \in DOMAIN accounts :
                /\ accounts'[a].id = accounts[a].id
                /\ accounts'[a].balance = accounts[a].balance +
                      (IF a # 1 THEN 0
                       ELSE IF KindOf(last'.category_id) = "income" THEN last'.amount
                       ELSE IF KindOf(last'.category_id) = "expense" THEN 0 - last'.amount
                       ELSE 0)]_vars

C5_Witness ==
    /\ last.op = "add_transaction" /\ last.error = NoError /\ last.amount = 300
    /\ Len(accounts) = 2
    /\ KindOf(last.category_id) = "expense"
    /\ accounts[1].balance = InitialBalance(accounts[1].id) - 300

\* The sum of the amounts of the first k ledger rows whose category is of the
\* given kind and, with since = <<d>>, whose date is d or later.
RECURSIVE LedgerSum(_, _, _)
LedgerSum(k, kind, since) ==
    IF k = 0 THEN 0
    ELSE LET t == transactions[k]
             counts == /\ t.category_id \in DOMAIN categories
                       /\ categories[t.category_id].type = kind
                       /\ since # None => t.date >= since[1]
         IN (IF counts THEN t.amount ELSE 0) + LedgerSum(k - 1, kind, since)

AllRows == Len(transactions)

\* C6: netWorth = totalIncome - totalExpenses, the totals being the all-time
\* sums of the amounts over income and expense categories; on an empty ledger
\* all six fields are 0.
C6_NetWorth ==
    LET s == get_balance_summary(DB)
    IN /\ s.total_income = LedgerSum(AllRows, "income", None)
       /\ s.total_expenses = LedgerSum(AllRows, "expense", None)
       /\ s.net_worth = LedgerSum(AllRows, "income", None) - LedgerSum(AllRows, "expense", None)
       /\ transactions = <<>> =>
             s = [total_income |-> 0, total_expenses |-> 0, net_worth |-> 0,
                  monthly_income |-> 0, monthly_expenses |-> 0, monthly_savings |-> 0]

C6_Witness ==
    /\ Len(transactions) = 2
    /\ get_balance_summary(DB).total_income = 1000
    /\ get_balance_summary(DB).total_expenses = 300
    /\ get_balance_summary(DB).net_worth = 700

\* C7: monthlyIncome and monthlyExpenses are the sums, by kind, of exactly the
\* transactions dated on or after the first day of the current month, and
\* monthlySavings is their difference.
C7_MonthlyFigures ==
    LET s == get_balance_summary(DB)
    IN /\ s.monthly_income = LedgerSum(AllRows, "income", <<current_month>>)
       /\ s.monthly_expenses = LedgerSum(AllRows, "expense", <<current_month>>)
       /\ s.monthly_savings = LedgerSum(AllRows, "income", <<current_month>>)
                                - LedgerSum(AllRows, "expense", <<current_month>>)

\* Income 1000 on the first day of the month and expense 300 later in it.
C7_Witness ==
    /\ Len(transactions) = 2
    /\ transactions[1].amount = 1000 /\ transactions[1].date = current_month
    /\ transactions[2].amount = 300 /\ transactions[2].date > current_month
    /\ get_balance_summary(DB) =
          [total_income |-> 1000, total_expenses |-> 300, net_worth |-> 700,
           monthly_income |-> 1000, monthly_expenses |-> 300, monthly_savings |-> 700]

NoDuplicateNames(cats) ==
    \A a, b \in DOMAIN cats : cats[a].name = cats[b].name => a = b

\* C8: the seeding inserts the default set if and only if the registry is
\* empty; a call made when a category exists changes nothing, and after any
\* number of calls no category name appears twice.
C8_SeedingIdempotent ==
    [][last'.op = "init_database" =>
          LET seen == SubSeq(categories, 1, Len(categories) - uncommitted)
          IN /\ seen = <<>> => categories' = default_categories
             /\ seen # <<>> => categories' = seen
             /\ NoDuplicateNames(categories')]_vars

\* A call of the seeding on a registry that holds an imported category too.
C8_Witness ==
    /\ last.op = "init_database"
    /\ last.before > Len(default_categories)
    /\ Len(categories) = last.before
    /\ NoDuplicateNames(categories)

\* The budgets whose end_date has not passed, today included.
Unexpired == {b \in DOMAIN budgets : budgets[b].end_date >= today}

\* The unexpired budgets whose category exists, and the n-th of them by id.
Reported == {b \in Unexpired : budgets[b].category_id \in DOMAIN categories}
NthReported(n) == CHOOSE b \in Reported : Cardinality({c \in Reported : c < b}) = n - 1

\* The sum of the amounts of the first k ledger rows of the budget's category
\* dated within the budget's window, both ends included.
RECURSIVE WindowSum(_, _)
WindowSum(k, budget) ==
    IF k = 0 THEN 0
    ELSE LET t == transactions[k]
             counts == /\ t.category_id = budget.category_id
                       /\ t.date >= budget.start_date
                       /\ t.date <= budget.end_date
         IN (IF counts THEN t.amount ELSE 0) + WindowSum(k - 1, budget)

\* What C9 states of one status entry, but for the percentage.
StatusMatches(st, budget) ==
    /\ st.budget = budget.amount
    /\ st.spent = WindowSum(AllRows, budget)
    /\ st.remaining = budget.amount - st.spent
    /\ st.alert <=> st.percentage.num >= budget.alert_threshold * st.percentage.den

\* percentage = spent / amount * 100
IsRatio(percentage, spent, amount) ==
    percentage.num * amount = spent * 100 * percentage.den

\* C9 as stated: for each reported budget, spent is the ledger sum of its
\* category within [start_date, end_date], percentage = spent / amount * 100
\* and 0 when amount is 0, alert is percentage >= threshold * 100 and
\* remaining = amount - spent.
C9_StatusAsStated ==
    \A n \in DOMAIN check_budget_status(DB) :
        LET st == check_budget_status(DB)[n]
            budget == budgets[NthReported(n)]
        IN /\ StatusMatches(st, budget)
           /\ budget.amount # 0 => IsRatio(st.percentage, st.spent, budget.amount)
           /\ budget.amount = 0 => st.percentage.num = 0

\* C9, amended: the percentage is spent / amount * 100 when amount > 0 and 0
\* when amount <= 0; the rest as stated.
C9_BudgetStatus ==
    \A n \in DOMAIN check_budget_status(DB) :
        LET st == check_budget_status(DB)[n]
            budget == budgets[NthReported(n)]
        IN /\ StatusMatches(st, budget)
           /\ budget.amount > 0 => IsRatio(st.percentage, st.spent, budget.amount)
           /\ budget.amount <= 0 => st.percentage.num = 0

\* A budget of 200 whose window holds a 300 expense on its last day:
\* percentage 150, alert, remaining -100.
C9_Witness ==
    /\ Len(budgets) = 1 /\ Len(transactions) = 1
    /\ transactions[1].date = budgets[1].end_date
    /\ Len(check_budget_status(DB)) = 1
    /\ LET st == check_budget_status(DB)[1]
       IN /\ st.budget = 200 /\ st.spent = 300
          /\ st.percentage.num = 150 * st.percentage.den
          /\ st.alert
          /\ st.remaining = 0 - 100

\* C10: checkStatus returns exactly one entry for every budget whose end_date
\* is today or later, in the order of the budgets, and none for any other.
C10_OnePerUnexpiredBudget ==
    /\ Len(check_budget_status(DB)) = Cardinality(Unexpired)
    /\ Reported = Unexpired
    /\ \A n \in DOMAIN check_budget_status(DB) :
          check_budget_status(DB)[n].budget = budgets[NthReported(n)].amount

\* C11: recordProgress adds the amount, sets achieved when the new
\* current_amount reaches target_amount, and never resets it: no step turns
\* an achieved goal into one that is not, whatever the later amounts.
C11_AchievedOneWay ==
    [][/\ \A g \in DOMAIN goals : goals[g].achieved => goals'[g].achieved
       /\ (last'.op = "update_goal_progress" /\ last'.goal_id \in DOMAIN goals) =>
             LET old == goals[last'.goal_id]
                 new == goals'[last'.goal_id]
             IN /\ new.current_amount = old.current_amount + last'.amount
                /\ new.target_amount = old.target_amount
                /\ new.current_amount >= new.target_amount => new.achieved]_vars

\* Target 500, progress +500 then -100: achieved, with current_amount 400.
C11_Witness ==
    /\ last.op = "update_goal_progress" /\ last.amount = 0 - 100
    /\ last.goal_id \in DOMAIN goals
    /\ goals[last.goal_id].target_amount = 500
    /\ goals[last.goal_id].current_amount = 400
    /\ goals[last.goal_id].achieved

\* C12: addGoal with targetAmount = 0 is rejected with InvalidTargetError and
\* stores nothing, so every stored goal has a non-zero target_amount and
\* listGoals computes a progress for every goal.
C12_ZeroTargetRejected ==
    /\ (last.op = "add_goal" /\ last.target_amount = 0) => last.error = "InvalidTargetError"
    /\ \A g \in DOMAIN goals : goals[g].target_amount # 0
    /\ \A k \in DOMAIN get_goals(DB) : get_goals(DB)[k].progress # None

\* C13: recordProgress with an id that names no goal surfaces NotFoundError
\* and leaves every goal unchanged.
C13_UnknownGoalNotFound ==
    [][(last'.op = "update_goal_progress" /\ last'.goal_id \notin DOMAIN goals)
          => (last'.error = "NotFoundError" /\ goals' = goals)]_vars

\* C14: listGoals returns all goals by priority ascending, then target_date
\* ascending, a goal without target_date after every goal of its priority
\* that has one.
C14_GoalOrderNullsLast ==
    LET rows == get_goals(DB)
    IN /\ Len(rows) = Len(goals)
       /\ \A k, l \in DOMAIN rows : k < l =>
             \/ rows[k].priority < rows[l].priority
             \/ /\ rows[k].priority = rows[l].priority
                /\ rows[k].target_date = None => rows[l].target_date = None
                /\ (rows[k].target_date # None /\ rows[l].target_date # None)
                      => rows[k].target_date[1] <= rows[l].target_date[1]

\* C15: the query returns its rows by date descending and, within a date, by
\* insertion order descending, the later-appended row first, also when
\* several rows of one date are appended in immediate succession.
C15_InsertionOrderDescending ==
    \A k, l \in DOMAIN QueryAll : k < l =>
        \/ QueryAll[k].date > QueryAll[l].date
        \/ QueryAll[k].date = QueryAll[l].date /\ QueryAll[k].id > QueryAll[l].id

\* The arguments a query is called with.
DateArgs == {None, <<1>>, <<2>>}
CategoryArgs == {None, <<0>>, <<1>>, <<4>>}
LimitArgs == {None, <<0>>, <<1>>, <<2>>}

\* The ledger rows that satisfy every supplied filter.
Matching(start_date, end_date, category_id) ==
    {i \in DOMAIN transactions :
        /\ start_date # None => transactions[i].date >= start_date[1]
        /\ end_date # None => transactions[i].date <= end_date[1]
        /\ category_id # None => transactions[i].category_id = category_id[1]}

\* C16: the query returns exactly the rows that satisfy all supplied filters
\* (an omitted filter restricts nothing) and, when a limit is supplied, at
\* most limit rows of them, for every limit including 0 and every categoryId.
C16_FiltersAndLimit ==
    \A start_date \in DateArgs, end_date \in DateArgs,
       category_id \in CategoryArgs, limit \in LimitArgs :
        LET rows == get_transactions(DB, start_date, end_date, category_id, limit)
            ids == {rows[k].id : k \in DOMAIN rows}
            matching == Matching(start_date, end_date, category_id)
        IN /\ Cardinality(ids) = Len(rows)
           /\ ids \subseteq matching
           /\ limit = None => ids = matching
           /\ limit # None => /\ Len(rows) <= limit[1]
                               /\ Len(rows) < limit[1] => ids = matching

\* The last calendar day of a month.
LastDayOf(year, month) ==
    IF month \in {4, 6, 9, 11} THEN 30
    ELSE IF month # 2 THEN 31
    ELSE IF year % 400 = 0 \/ (year % 4 = 0 /\ year % 100 # 0) THEN 29 ELSE 28

\* C17: for every year and every month in 1..12 the report's window runs from
\* the first day of the month through its last calendar day (December ends
\* on December 31 of the same year; 2024-12 ends on 2024-12-31 and 2023-02
\* on 2023-02-28); savings = income - expense and savingsRate is
\* savings / income * 100, or 0 when income is 0.
C17_MonthWindow ==
    last.op = "generate_monthly_report" =>
        LET r == last.report
        IN /\ r.error = NoError
           /\ r.start_date = [year |-> last.year, month |-> last.month, day |-> 1]
           /\ r.end_date = [year |-> last.year, month |-> last.month,
                            day |-> LastDayOf(last.year, last.month)]
           /\ (last.year = 2024 /\ last.month = 12) => r.end_date.day = 31
           /\ (last.year = 2023 /\ last.month = 2) => r.end_date.day = 28
           /\ r.savings = r.income - r.expenses
           /\ r.income # 0 => r.savings_rate.num * r.income = r.savings * 100 * r.savings_rate.den
           /\ r.income = 0 => r.savings_rate.num = 0

\* C17 holds of every report of a year before the last one.
C17_BeforeLastYear == (last.op = "generate_monthly_report" /\ last.year = MAXYEAR) \/ C17_MonthWindow

\* The number of messages of the given text in a list.
CountOf(list, text) == Cardinality({k \in DOMAIN list : list[k].text = text})

\* The messages of the given text in the four lists, as
\* <<habits, recommendations, warnings, achievements>>.
Produced(ins, text) ==
    << CountOf(ins.spending_habits, text), CountOf(ins.recommendations, text),
       CountOf(ins.warnings, text), CountOf(ins.achievements, text) >>

\* C18: with monthlyIncome > 0 exactly one savings-rate message is produced:
\* the top-tier achievement when savingsRate >= 20, the lesser achievement
\* when 10 <= savingsRate < 20, the increase-savings recommendation when
\* savingsRate < 10; with monthlyIncome <= 0 none of the three is produced.
C18_OneSavingsMessage ==
    LET ins == get_financial_insights(DB)
        income == LedgerSum(AllRows, "income", <<current_month>>)
        expenses == LedgerSum(AllRows, "expense", <<current_month>>)
        \* savingsRate >= p, for income > 0
        AtLeast(p) == (income - expenses) * 100 >= p * income
        excellent == Produced(ins, "excellent")
        good == Produced(ins, "good")
        increase == Produced(ins, "increase_savings")
        one == <<0, 0, 0, 1>>
        recommended == <<0, 1, 0, 0>>
        no == <<0, 0, 0, 0>>
    IN /\ income > 0 /\ AtLeast(20) =>
             excellent = one /\ good = no /\ increase = no
       /\ income > 0 /\ AtLeast(10) /\ ~AtLeast(20) =>
             excellent = no /\ good = one /\ increase = no
       /\ income > 0 /\ ~AtLeast(10) =>
             excellent = no /\ good = no /\ increase = recommended
       /\ income <= 0 =>
             excellent = no /\ good = no /\ increase = no

\* Income 1000 and expenses 850 this month: the lesser achievement, at 15.0%.
C18_Witness ==
    /\ LedgerSum(AllRows, "income", <<current_month>>) = 1000
    /\ LedgerSum(AllRows, "expense", <<current_month>>) = 850
    /\ get_financial_insights(DB).achievements = <<[text |-> "good", rate |-> 150]>>
    /\ get_financial_insights(DB).recommendations = <<>>

\* The ledgers of one or two rows that the insights specification can
\* build, and the empty one.
InsightRows ==
    { [amount |-> amount, description |-> "d", category_id |-> category_id,
       date |-> date, created_at |-> 0] :
         amount \in InsightAmounts, category_id \in InsightCategories, date \in InsightDays }

Ledgers == {<<>>} \cup {<<t>> : t \in InsightRows} \cup {<<t, u>> : t \in InsightRows, u \in InsightRows}

\* The database with another ledger in place of the stored one.
WithLedger(ledger) == [DB EXCEPT !.transactions = ledger]

\* The two ledger states have equal summary and equal monthly category spending.
SameInputs(db, other) ==
    /\ get_balance_summary(db) = get_balance_summary(other)
    /\ get_category_spending(db, "monthly") = get_category_spending(other, "monthly")

\* C19: the overspending warning and its recommendation are produced if and
\* only if monthlyExpenses > monthlyIncome, and two ledger states of equal
\* summary and equal monthly category spending yield identical message lists.
C19_WarningAndDeterminism ==
    LET ins == get_financial_insights(DB)
        income == LedgerSum(AllRows, "income", <<current_month>>)
        expenses == LedgerSum(AllRows, "expense", <<current_month>>)
        warning == Produced(ins, "overspending")
        review == Produced(ins, "review_expenses")
    IN /\ warning = (IF expenses > income THEN <<0, 0, 1, 0>> ELSE <<0, 0, 0, 0>>)
       /\ review = (IF expenses > income THEN <<0, 1, 0, 0>> ELSE <<0, 0, 0, 0>>)
       /\ \A ledger \in Ledgers :
             SameInputs(DB, WithLedger(ledger)) =>
                get_financial_insights(WithLedger(ledger)) = ins

\* Expenses without income this month, the warning with its recommendation,
\* and another ledger of the same summary and monthly spending whose
\* spending of all time differs.
C19_Witness ==
    /\ opened
    /\ LedgerSum(AllRows, "expense", <<current_month>>) > LedgerSum(AllRows, "income", <<current_month>>)
    /\ get_financial_insights(DB).warnings = <<[text |-> "overspending"]>>
    /\ get_financial_insights(DB).recommendations = <<[text |-> "review_expenses"]>>
    /\ \E ledger \in Ledgers :
          /\ SameInputs(DB, WithLedger(ledger))
          /\ get_category_spending(WithLedger(ledger), "all") # get_category_spending(DB, "all")
          /\ get_financial_insights(WithLedger(ledger)) = get_financial_insights(DB)

\* The index of the first row whose Amount is no number; Len(rows) + 1 if
\* every Amount is one.
FirstUnparsable(rows) ==
    IF \A k \in DOMAIN rows : CanParse(rows[k].Amount) THEN Len(rows) + 1
    ELSE CHOOSE k \in DOMAIN rows :
            /\ ~CanParse(rows[k].Amount)
            /\ \A j \in 1..(k - 1) : CanParse(rows[j].Amount)

\* The Type a row gives its category, were the category created.
TypeOf(row) == IF row.Type = NoColumn THEN "expense" ELSE row.Type

\* The stored transaction t is the one of the row, in the registry cats.
IsOfRow(t, row, cats) ==
    /\ t.amount = float(row.Amount)
    /\ t.description = row.Description
    /\ t.date = row.Date
    /\ t.category_id \in DOMAIN cats
    /\ cats[t.category_id].name = row.Category

\* C20: an import processes the rows in file order; a row whose Amount is no
\* number ends it with a reported error, no later row is processed, and the
\* transactions appended for the earlier rows stay in the ledger.
C20_ImportAbortsKeepingEarlier ==
    [][ LET rows == last'.rows
            bad == FirstUnparsable(rows)
            n == Len(transactions)
        IN (/\ last'.op = "import_data"
            /\ \A j \in 1..(bad - 1) : j \in DOMAIN rows /\ TypeOf(rows[j]) \in ValidTypes) =>
              /\ bad \in DOMAIN rows => last'.error # NoError
              /\ bad \notin DOMAIN rows => last'.error = NoError
              /\ last'.done = bad - 1
              /\ Len(transactions') = n + bad - 1
              /\ SubSeq(transactions', 1, n) = transactions
              /\ \A j \in 1..(bad - 1) : IsOfRow(transactions'[n + j], rows[j], categories')
              /\ \A c \in DOMAIN categories' \ DOMAIN categories :
                    \E j \in 1..bad : j \in DOMAIN rows /\ rows[j].Category = categories'[c].name
      ]_vars

\* A file of a good row and a row of Amount 'abc': the import reported the
\* error at the second row and the transaction of the first is in the ledger.
C20_Witness ==
    /\ last.op = "import_data"
    /\ Len(last.rows) = 2
    /\ CanParse(last.rows[1].Amount) /\ ~CanParse(last.rows[2].Amount)
    /\ last.error = "ValueError"
    /\ last.done = 1
    /\ transactions # <<>>
    /\ IsOfRow(transactions[Len(transactions)], last.rows[1], categories)

\* The categories of the given name in a registry.
Named(cats, name) == {c \in DOMAIN cats : cats[c].name = name}

\* The first row of the file that names the category of row j.
FirstNaming(rows, j) ==
    CHOOSE k \in 1..j : /\ rows[k].Category = rows[j].Category
                        /\ \A i \in 1..(k - 1) : rows[i].Category # rows[j].Category

\* C21: an import resolves the category of each row by its exact name; a
\* name that no category has gets a new category of the row's Type, expense
\* without a Type, and the transaction is appended to it; a name that a
\* category has creates none and the existing categories stay as they are.
C21_ImportResolvesCategory ==
    [][ last'.op = "import_data" =>
          LET rows == last'.rows
              n == Len(transactions)
          IN /\ Len(categories') >= Len(categories)
             /\ SubSeq(categories', 1, Len(categories)) = categories
             /\ \A j \in 1..last'.done :
                   LET name == rows[j].Category
                       ids == Named(categories', name)
                   IN /\ Cardinality(ids) = 1
                      /\ transactions'[n + j].category_id \in ids
                      /\ Named(categories, name) # {} => ids = Named(categories, name)
                      /\ Named(categories, name) = {} =>
                            \A c \in ids : categories'[c].type = TypeOf(rows[FirstNaming(rows, j)])
             /\ \A c \in DOMAIN categories' \ DOMAIN categories :
                   \E j \in DOMAIN rows : j <= last'.done + 1 /\ rows[j].Category = categories'[c].name
      ]_vars

\* A file of a row for Zarplata and a row for Gifts, which has no Type: both
\* rows are imported, Gifts is the new expense category 11.
C21_Witness ==
    /\ last.op = "import_data"
    /\ last.done = 2
    /\ last.rows[1].Category = "Zarplata" /\ last.rows[2].Category = "Gifts"
    /\ Len(categories) = 11
    /\ categories[11] = [name |-> "Gifts", type |-> "expense"]
    /\ transactions[Len(transactions) - 1].category_id = 1
    /\ transactions[Len(transactions)].category_id = 11

\* The (amount, description, category name, date) tuples of a ledger; the
\* name is None for a transaction whose category_id no category has.
TuplesOf(db) ==
    { << db.transactions[i].amount, db.transactions[i].description,
         IF db.transactions[i].category_id \in DOMAIN db.categories
         THEN <<db.categories[db.transactions[i].category_id].name>> ELSE None,
         db.transactions[i].date >> : i \in TxIds(db) }

\* C22: the file exported from any ledger, imported into an empty ledger,
\* gives a ledger of the same set of (amount, description, category name,
\* date) tuples.
C22_RoundTrip ==
    last.op = "import_exported" => TuplesOf(last.db) = TuplesOf(DB)

\* The round trip of the ledgers in which every category_id is the id of a
\* category and no description holds a carriage return.
C22_WithoutCarriageReturn ==
    (/\ last.op = "import_exported"
     /\ \A i \in TxIds(DB) :
           /\ transactions[i].category_id \in DOMAIN categories
           /\ \A k \in DOMAIN Characters(transactions[i].description) :
                 Characters(transactions[i].description)[k] # CR)
    => (last.error = NoError /\ TuplesOf(last.db) = TuplesOf(DB))

\* C23: the ledger is append-only: no operation changes a field of a stored
\* transaction or removes it, and the committed category of a stored
\* transaction stays the category it was.
C23_AppendOnly ==
    [][ /\ Len(transactions') >= Len(transactions)
        /\ \A i \in DOMAIN transactions :
              /\ transactions'[i] = transactions[i]
              /\ transactions[i].category_id \in DOMAIN Committed(DB).categories =>
                    /\ transactions[i].category_id \in DOMAIN categories'
                    /\ categories'[transactions[i].category_id]
                          = categories[transactions[i].category_id]
      ]_vars

\* Two stored transactions, a budget, a goal with progress, and a query as
\* the last operation.
C23_Witness ==
    /\ Len(transactions) = 2
    /\ transactions[1] # transactions[2]
    /\ budgets # <<>>
    /\ goals # <<>> /\ goals[1].current_amount > 0
    /\ last.op = "get_transactions"

\* C24: every stored budget has end_date >= start_date.
C24_WindowOrdered ==
    \A b \in DOMAIN budgets : budgets[b].end_date >= budgets[b].start_date

\* The signed sum of the rows from..to of a ledger: + for a row of an income
\* category, - for a row of an expense category, nothing for a row whose
\* category_id no category has.
RECURSIVE SignedOver(_, _, _, _)
SignedOver(ledger, cats, from, to) ==
    IF from > to THEN 0
    ELSE LET t == ledger[to]
             signed == IF t.category_id \notin DOMAIN cats THEN 0
                       ELSE IF cats[t.category_id].type = "income" THEN t.amount
                       ELSE 0 - t.amount
         IN signed + SignedOver(ledger, cats, from, to - 1)

\* C25: with at least one account, every operation moves the balance of the
\* first account by the amounts of the transactions it appends, + to income
\* and - to expense categories, and leaves every other account as it was; so
\* after any sequence of appends and imports the balance is the initial one
\* plus the income minus the expenses appended.
C25_BalanceFollowsAppends ==
    [][ accounts # <<>> =>
          /\ Len(accounts') = Len(accounts)
          /\ accounts'[1].id = accounts[1].id
          /\ accounts'[1].balance = accounts[1].balance
                + SignedOver(transactions', categories', Len(transactions) + 1, Len(transactions'))
          /\ \A k \in 2..Len(accounts) : accounts'[k] = accounts[k]
      ]_vars

\* Two accounts, an import of income 1000 and expense 300: the first account
\* went from 50 to 750, the other is at 0.
C25_Witness ==
    /\ last.op = "import_data" /\ last.done = 2
    /\ Len(transactions) = 2
    /\ Len(accounts) = 2
    /\ accounts[1] = [id |-> 2, balance |-> 750]
    /\ accounts[2] = [id |-> 1, balance |-> 0]

\* C26: for every budget checkStatus reports, the spend it computes by the
\* name of the budget's category is the spend of the transactions that hold
\* the budget's category_id; no two categories have one name.
C26_SpendByNameIsSpendById ==
    /\ NoDuplicateNames(categories)
    /\ Len(check_budget_status(DB)) = Cardinality(Reported)
    /\ \A n \in DOMAIN check_budget_status(DB) :
          /\ check_budget_status(DB)[n].category = categories[budgets[NthReported(n)].category_id].name
          /\ check_budget_status(DB)[n].spent = WindowSum(AllRows, budgets[NthReported(n)])

\* A budget on Gifts, the category 11 an import created, and a transaction
\* of 300 in it.
C26_Witness ==
    /\ Len(categories) >= 11 /\ categories[11].name = "Gifts"
    /\ Len(budgets) = 1 /\ budgets[1].category_id = 11
    /\ Len(transactions) = 2
    /\ transactions[1].category_id = 1 /\ transactions[2].category_id = 11
    /\ Len(check_budget_status(DB)) = 1
    /\ check_budget_status(DB)[1].category = "Gifts"
    /\ check_budget_status(DB)[1].spent = 300

\* What C27 states of a summary.
WithinTotals(s) ==
    /\ 0 <= s.monthly_income /\ s.monthly_income <= s.total_income
    /\ 0 <= s.monthly_expenses /\ s.monthly_expenses <= s.total_expenses

\* C27: in every state reached by appends and imports the summary has
\* 0 <= monthlyIncome <= totalIncome and 0 <= monthlyExpenses <= totalExpenses.
C27_MonthlyWithinTotals == WithinTotals(get_balance_summary(DB))

\* The same of the ledgers that hold no negative amount.
C27_WithoutNegativeAmounts ==
    (\A i \in DOMAIN transactions : transactions[i].amount >= 0)
        => WithinTotals(get_balance_summary(DB))

\* The categories a step makes visible in the registry, and those it commits.
NewlyVisible == DOMAIN categories' \ DOMAIN categories
NewlyCommitted == (1..(Len(categories') - uncommitted')) \ (1..(Len(categories) - uncommitted))

\* The category c of the registry after the step is seeded by the
\* construction or is that of a row the import of this step has imported.
OfImportedRow(c) ==
    \/ last'.op = "init_database"
    \/ /\ last'.op = "import_data"
       /\ \E j \in 1..last'.done : last'.rows[j].Category = categories'[c].name

\* C28: a row on which the import aborts leaves no category: the categories
\* a step makes visible, and those a step commits, are of rows imported by
\* that step (or seeded), so that none of a failed row is seen right after
\* the abort or committed by a later operation.
C28_FailedRowLeavesNoCategory ==
    [][ /\ \A c \in NewlyVisible : OfImportedRow(c)
        /\ \A c \in NewlyCommitted : OfImportedRow(c)
      ]_vars
====
